---- MODULE Spec2Model ----
(***************************************************************************)
(* OpenJeopardy (src/src/main.rs): the game session shared by the actix    *)
(* handlers register, buzz, get_answer (/answer), admin, splash, buzzer.   *)
(*                                                                         *)
(* Spec: each request is one step.  A handler is modelled by its outcome:  *)
(* the HTTP response (resp) and the stores as the handler leaves them.     *)
(*                                                                         *)
(* SpecConc, FairSpec: the handlers run interleaved, one step for each     *)
(* lock acquisition, write to a shared store and await point.              *)
(*                                                                         *)
(* Panics.  Vec indexing out of bounds, .unwrap() on a poisoned lock and,  *)
(* in a build with overflow checks, integer overflow panic.  A panic       *)
(* unwinds the request only (the server keeps serving).  A std RwLock      *)
(* whose write guard is dropped during the unwind is poisoned, and every   *)
(* later .read().unwrap() / .write().unwrap() on it panics.  Read guards   *)
(* do not poison.  The response of a panicked request is "Panic".          *)
(*                                                                         *)
(* Build and deployment.  overflowChecks is the overflow-checks setting of *)
(* the build (on in the dev profile, off in release); templates says       *)
(* whether answer.html and admin.html can be read from the working         *)
(* directory.  Both are fixed when the server starts.                      *)
(*                                                                         *)
(* Names are sequences of characters, so that the name pattern and the     *)
(* placeholder "UNKNOWN No.<n>" are computed, not assumed.                 *)
(***************************************************************************)
EXTENDS Integers, Sequences, FiniteSets, TLC

\* ---------------------------------------------------------------- bounds
MaxPlayers == 2       \* registry entries explored
MaxGrades == 1        \* recorded tries explored on the whole board
MaxTasks == 2         \* handlers in flight at one time
MaxRequests == 3      \* handlers started in one run of the interleaved server

\* ------------------------------------------------------- integer widths
U8Max == 255
I32Min == -2147483647 - 1
I32Max == 2147483647

None == -1            \* an absent Option<u8> / Option<u16> query parameter
NoPeer == "none"      \* req.peer_addr() == None

\* --------------------------------------------------------------- inputs
PeerInputs == {"127.0.0.1", "10.0.0.7", NoPeer}   \* callers of /answer and /admin
ContestantInputs == {"10.0.0.7", NoPeer}          \* callers of /register and /buzz
NameInputs == {<<"a">>, <<"b", "_">>, <<>>, <<"a", " ">>}
IndexInputs ==        \* (c, a): the answer of the board, a bad category, a bad answer
  {<<0, 0>>, <<1, 0>>, <<0, 1>>}
ValueInputs == {None, 300}
RatingInputs == {"none", "positive", "neutral", "negative"}
SetstateInputs == {None, 0, 1, U8Max}
ResetInputs == {"none", "true"}
PlayerInputs == {None, 0, U8Max}
AnswerRequests ==     \* /answer requests; those not of the admin address the first answer
  {r \in [peer : PeerInputs, idx : IndexInputs, value : ValueInputs, rating : RatingInputs] :
     /\ r.peer # "127.0.0.1" => r.idx = <<0, 0>>
     /\ r.peer = NoPeer => r.value = None}
AdminRequests ==      \* /admin requests: at most one query parameter, or all three
  {r \in [peer : PeerInputs, setstate : SetstateInputs, reset : ResetInputs,
          player : PlayerInputs] :
     LET n == (IF r.setstate # None THEN 1 ELSE 0) + (IF r.reset # "none" THEN 1 ELSE 0)
              + (IF r.player # None THEN 1 ELSE 0)
     IN /\ n <= 1 \/ n = 3
        /\ r.peer = NoPeer => r.reset = "none"}

\* ------------------------------------------------------------ IS_VALID_NAME
NameChars ==
  {"0","1","2","3","4","5","6","7","8","9"} \cup
  {"a","b","c","d","e","f","g","h","i","j","k","l","m",
   "n","o","p","q","r","s","t","u","v","w","x","y","z"} \cup
  {"A","B","C","D","E","F","G","H","I","J","K","L","M",
   "N","O","P","Q","R","S","T","U","V","W","X","Y","Z"} \cup
  {"_", "-"}

\* Regex ^[0-9a-zA-Z_-]+$ over a name given as its sequence of characters.
IS_VALID_NAME(name) ==
  /\ Len(name) > 0
  /\ \A i \in 1..Len(name) : name[i] \in NameChars

\* ------------------------------------------------------------ to_string
DigitChar(d) ==
  CASE d = 0 -> "0" [] d = 1 -> "1" [] d = 2 -> "2" [] d = 3 -> "3"
    [] d = 4 -> "4" [] d = 5 -> "5" [] d = 6 -> "6" [] d = 7 -> "7"
    [] d = 8 -> "8" [] d = 9 -> "9"

RECURSIVE to_string(_)
to_string(n) ==
  IF n < 10 THEN <<DigitChar(n)>>
  ELSE to_string(n \div 10) \o <<DigitChar(n % 10)>>

UnknownPrefix == <<"U","N","K","N","O","W","N"," ","N","o",".">>

\* ---------------------------------------------------------------- state
VARIABLES
  status,           \* Arc<RwLock<Status>>
  ip_cache,         \* moka Cache<String, String>: ip -> name
  players,          \* Arc<RwLock<Vec<Player>>>
  active_player,    \* Arc<RwLock<ActivePlayer>>: the id
  answers,          \* Arc<RwLock<Answers>>: categories -> answers
  answersPoisoned,  \* the answers RwLock is poisoned
  playersPoisoned,  \* the players RwLock is poisoned
  overflowChecks,   \* the build panics on integer overflow (debug profile)
  templates,        \* answer.html and admin.html are readable in the working directory
  registered,       \* history: addresses whose register returned its redirect
  overridden,       \* history: value stored by the last completed override, per answer
  tasks,            \* interleaved server: each handler's position and locals
  locks,            \* interleaved server: the guards held on each RwLock
  started           \* interleaved server: handlers started so far

vars == <<status, ip_cache, players, active_player, answers, answersPoisoned,
          playersPoisoned, overflowChecks, templates, registered, overridden,
          tasks, locks, started>>

\* ------------------------------------------------------- question file
\* The Answers value deserialized from a question file of one category
\* with one answer; tries is #[serde(skip)], so None.
Catalog ==
  << [name |-> "Rivers",
      answers |-> << [task |-> [kind |-> "Text", text |-> "Longest river of Europe"],
                      points |-> 100, double |-> TRUE,
                      tries |-> [some |-> FALSE, v |-> <<>>]] >>] >>

\* The (c, a) pairs that index an answer of the board.
Cells == {<<c, a>> \in IndexInputs : c < Len(Catalog) /\ a < Len(Catalog[c + 1].answers)}

EmptyCache == [k \in {} |-> <<>>]

\* ------------------------------------------------- handlers in flight
Tasks == 1..MaxTasks
NoTask == 0
LockNames == {"status", "players", "active_player", "answers"}

NoRequest ==
  [op |-> "none", peer |-> NoPeer, name |-> <<>>, idx |-> <<0, 0>>, value |-> None,
   rating |-> "none", setstate |-> None, player |-> None]

\* What the admin handler has put on its page so far.
NoPage == [tries |-> <<>>, players |-> <<>>]

\* A worker with no handler running.
Idle == [pc |-> "idle", rq |-> NoRequest, player_name |-> <<>>, page |-> NoPage]

\* An RwLock nobody holds.
FreeLock == [w |-> NoTask, r |-> {}]

Init ==
  /\ status = "Registration"
  /\ ip_cache = EmptyCache
  /\ players = <<>>
  /\ active_player = 0
  /\ answers = Catalog
  /\ answersPoisoned = FALSE
  /\ playersPoisoned = FALSE
  /\ overflowChecks \in BOOLEAN
  /\ templates \in BOOLEAN
  /\ registered = {}
  /\ overridden = [idx \in Cells |-> None]
  /\ tasks = [t \in Tasks |-> Idle]
  /\ locks = [lk \in LockNames |-> FreeLock]
  /\ started = 0

\* A handler outcome with response r that leaves every store as it is.
Same(r) ==
  [resp |-> r, status |-> status, ip_cache |-> ip_cache, players |-> players,
   active_player |-> active_player, answers |-> answers,
   answersPoisoned |-> answersPoisoned, playersPoisoned |-> playersPoisoned]

\* The stores take the values the handler left.
Commit(out) ==
  /\ status' = out.status
  /\ ip_cache' = out.ip_cache
  /\ players' = out.players
  /\ active_player' = out.active_player
  /\ answers' = out.answers
  /\ answersPoisoned' = out.answersPoisoned
  /\ playersPoisoned' = out.playersPoisoned
  /\ UNCHANGED <<overflowChecks, templates, tasks, locks, started>>

\* ------------------------------------------------------------- register
\* An insert that keeps the mapping an address already has.
CacheInsert_KeepFirst(cache, ip, name) ==
  [k \in (DOMAIN cache) \cup {ip} |-> IF k \in DOMAIN cache THEN cache[k] ELSE name]

\* ip_cache.insert(ip, name): the address maps to the name, other entries stay
CacheInsert(cache, ip, name) ==
  [k \in (DOMAIN cache) \cup {ip} |-> IF k = ip THEN name ELSE cache[k]]

PlayersPush(list, name) == Append(list, [name |-> name, points |-> 0])

\* Outcome of the register handler.
RegisterOutcome(peer, name) ==
  IF status # "Registration" THEN Same("GameNotJoinable")
  ELSE IF ~IS_VALID_NAME(name) THEN Same("InvalidName")
  ELSE IF peer = NoPeer THEN Same("IdentityUnavailable")
  ELSE IF playersPoisoned
    THEN [Same("Panic") EXCEPT !.ip_cache = CacheInsert(ip_cache, peer, name)]
  ELSE [Same("Redirect") EXCEPT !.ip_cache = CacheInsert(ip_cache, peer, name),
                                !.players = PlayersPush(players, name)]

register(peer, name) ==
  LET out == RegisterOutcome(peer, name) IN
  /\ Len(out.players) <= MaxPlayers
  /\ Commit(out)
  /\ registered' = IF out.resp = "Redirect" THEN registered \cup {peer} ELSE registered
  /\ UNCHANGED overridden

\* ----------------------------------------------------------------- buzz
BuzzOutcome(peer) ==
  IF peer = NoPeer THEN Same("IdentityUnavailable")
  ELSE IF peer \notin DOMAIN ip_cache THEN Same("NotRegistered")
  ELSE Same("Redirect")

buzz(peer) ==
  /\ Commit(BuzzOutcome(peer))
  /\ UNCHANGED <<registered, overridden>>

\* --------------------------------------------------------------- answer
\* A check that also takes the private-network caller for the admin.
IsLoopback_Private(ip) == ip \in {"127.0.0.1", "::1", "10.0.0.7"}

IsLoopback(ip) == ip \in {"127.0.0.1", "::1"}

\* Vec indexing categories[c].answers[a] is in bounds.
ValidIndex(ans, c, a) ==
  /\ c < Len(ans)
  /\ a < Len(ans[c + 1].answers)

AnswerAt(ans, c, a) == ans[c + 1].answers[a + 1]

\* i32 += / -= of a u16 leaves the i32 range.
AddOverflows(p, v) == p > I32Max - v
SubOverflows(p, v) == p < I32Min + v
WrapAddI32(p, v) == IF AddOverflows(p, v) THEN I32Min + (v - (I32Max - p) - 1) ELSE p + v
WrapSubI32(p, v) == IF SubOverflows(p, v) THEN I32Max - (v - (p - I32Min) - 1) ELSE p - v

\* The score after rating the player with v points (wrapping arithmetic).
\* A rating that adds the points for a negative rating as well.
RatedPoints_AddOnly(p, rating, v) ==
  IF rating \in {"positive", "negative"} THEN WrapAddI32(p, v) ELSE p

RatedPoints(p, rating, v) ==
  CASE rating = "positive" -> WrapAddI32(p, v)
    [] rating = "negative" -> WrapSubI32(p, v)
    [] OTHER -> p

RatingOverflows(p, rating, v) ==
  CASE rating = "positive" -> AddOverflows(p, v)
    [] rating = "negative" -> SubOverflows(p, v)
    [] OTHER -> FALSE

\* active_player.id + 1 in u8 arithmetic (wrapping).
U8Add1(id) == (id + 1) % (U8Max + 1)

\* format!("UNKNOWN No.{}", (active_player.id + 1).to_string())
UnknownName(id) == UnknownPrefix \o to_string(U8Add1(id))

\* AnswerResult for a rating at the answer's stored points.
AnswerResultOf(rating, v) ==
  CASE rating = "positive" -> [kind |-> "positive", points |-> v]
    [] rating = "negative" -> [kind |-> "negative", points |-> v]
    [] OTHER -> [kind |-> "neutral", points |-> 0]

\* tries: None becomes Some(vec![]), then push.
PushTry(ans, c, a, try) ==
  [ans EXCEPT ![c + 1].answers[a + 1].tries =
     [some |-> TRUE, v |-> Append(@.v, try)]]

SetPoints(ans, c, a, value) ==
  [ans EXCEPT ![c + 1].answers[a + 1].points = value]

\* if let Some(value) = &query.value { ...points = *value }
\* An override that stores 0 when the request carries no value.
ApplyValue_Always(ans, c, a, value) ==
  SetPoints(ans, c, a, IF value # None THEN value ELSE 0)

ApplyValue(ans, c, a, value) ==
  IF value # None THEN SetPoints(ans, c, a, value) ELSE ans

\* The rating block on valid indices, with the answers write guard held.
GradeOutcome(c, a, rating) ==
  LET id == active_player
      v == AnswerAt(answers, c, a).points
      panicBoth == [Same("Panic") EXCEPT !.answersPoisoned = TRUE,
                                         !.playersPoisoned = TRUE]
  IN
  IF playersPoisoned
    THEN [Same("Panic") EXCEPT !.answersPoisoned = TRUE]
  ELSE IF id >= Len(players)
    THEN IF id + 1 > U8Max /\ overflowChecks
           THEN panicBoth
           ELSE [Same("Ok") EXCEPT !.answers =
                   PushTry(answers, c, a,
                     [player |-> UnknownName(id),
                      try_result |-> AnswerResultOf(rating, v)])]
  ELSE IF RatingOverflows(players[id + 1].points, rating, v) /\ overflowChecks
    THEN panicBoth
  ELSE [Same("Ok") EXCEPT
          !.players = [players EXCEPT ![id + 1].points = RatedPoints(@, rating, v)],
          !.answers = PushTry(answers, c, a,
                        [player |-> players[id + 1].name,
                         try_result |-> AnswerResultOf(rating, v)])]

\* Outcome of the /answer handler.
AnswerOutcome(peer, c, a, value, rating) ==
  IF peer = NoPeer THEN Same("IdentityUnavailable")
  ELSE IF ~IsLoopback(peer) THEN Same("Unauthorized")
  ELSE IF ~templates THEN Same("TemplateUnavailable")
  ELSE IF answersPoisoned THEN Same("Panic")
  ELSE IF ~ValidIndex(answers, c, a)
    THEN [Same("Panic") EXCEPT !.answersPoisoned = TRUE]
  ELSE LET g == IF rating # "none" THEN GradeOutcome(c, a, rating) ELSE Same("Ok") IN
       IF g.resp = "Panic" THEN g
       ELSE [g EXCEPT !.answers = ApplyValue(@, c, a, value)]

RECURSIVE SumSeq(_)
SumSeq(q) == IF q = <<>> THEN 0 ELSE Head(q) + SumSeq(Tail(q))

\* Number of tries recorded on the whole board.
TriesTotal(ans) ==
  SumSeq([c \in 1..Len(ans) |->
            SumSeq([a \in 1..Len(ans[c].answers) |-> Len(ans[c].answers[a].tries.v)])])

get_answer(peer, c, a, value, rating) ==
  LET out == AnswerOutcome(peer, c, a, value, rating) IN
  /\ TriesTotal(out.answers) <= MaxGrades
  /\ Commit(out)
  /\ overridden' = IF out.resp = "Ok" /\ value # None
                     THEN [overridden EXCEPT ![<<c, a>>] = value]
                     ELSE overridden
  /\ UNCHANGED registered

\* ---------------------------------------------------------------- admin
\* A mapping that takes code 1, the code the page shows, for Registration.
StatusOfCode_Shown(code) == IF code = 1 THEN "Registration" ELSE "BuzzerActive"

\* match query.setstate.unwrap() { 0 => Registration, _ => BuzzerActive }
StatusOfCode(code) == IF code = 0 THEN "Registration" ELSE "BuzzerActive"

\* The STATE code the admin page shows.
StateCode(st) == IF st = "Registration" THEN 1 ELSE 0

\* if query.player.is_some() { *active_player = ActivePlayer { id } }
SelectPlayer(out, player) ==
  IF player # None THEN [out EXCEPT !.active_player = player] ELSE out

\* if query.setstate.is_some() { *status = ... }
SetState(out, setstate) ==
  IF setstate # None THEN [out EXCEPT !.status = StatusOfCode(setstate)] ELSE out

\* Outcome of the /admin handler; query.reset is never read.
AdminOutcome(peer, setstate, reset, player) ==
  IF peer = NoPeer THEN Same("IdentityUnavailable")
  ELSE IF ~IsLoopback(peer) THEN Same("Unauthorized")
  ELSE LET r == IF ~templates THEN "TemplateUnavailable"
                ELSE IF answersPoisoned \/ playersPoisoned THEN "Panic"
                ELSE "Ok"
       IN SetState(SelectPlayer(Same(r), player), setstate)

admin(peer, setstate, reset, player) ==
  /\ Commit(AdminOutcome(peer, setstate, reset, player))
  /\ UNCHANGED <<registered, overridden>>

\* ------------------------------------------------------ splash, buzzer
splash ==
  /\ Commit(Same("Ok"))
  /\ UNCHANGED <<registered, overridden>>

buzzer ==
  /\ Commit(Same("Ok"))
  /\ UNCHANGED <<registered, overridden>>

Next ==
  \/ \E peer \in ContestantInputs, name \in NameInputs : register(peer, name)
  \/ \E peer \in ContestantInputs : buzz(peer)
  \/ \E r \in AnswerRequests :
       get_answer(r.peer, r.idx[1], r.idx[2], r.value, r.rating)
  \/ \E r \in AdminRequests : admin(r.peer, r.setstate, r.reset, r.player)
  \/ splash
  \/ buzzer

Spec == Init /\ [][Next]_vars
\* Every try recorded on the board, as one sequence.
RECURSIVE Flatten(_)
Flatten(qq) == IF qq = <<>> THEN <<>> ELSE Head(qq) \o Flatten(Tail(qq))

AllTries(ans) ==
  Flatten([c \in 1..Len(ans) |->
             Flatten([a \in 1..Len(ans[c].answers) |-> ans[c].answers[a].tries.v])])

\* =================================================================
\* The interleaved server
\* =================================================================
\* actix-web runs each request's handler as a task on a worker thread; the
\* workers run in parallel.  A handler is modelled as its sequence of steps
\* between lock acquisitions, writes to shared state and await points.  A
\* step that needs a lock is enabled when std::sync::RwLock would grant it:
\* read() with no writer, write() with no holder.  Guards are released where
\* their scope ends in the source, or all at once when the handler panics.
\* No handler holds a guard across an await, so a handler that holds a guard
\* runs on its thread until it releases it; every task is therefore taken to
\* step independently.  The page templates are readable.

\* Requests to the interleaved server: well-formed requests of the one
\* contestant and of the admin, and one with a category index off the board.
ConcRequests ==
  {[NoRequest EXCEPT !.op = "register", !.peer = "10.0.0.7", !.name = <<"a">>],
   [NoRequest EXCEPT !.op = "buzz", !.peer = "10.0.0.7"],
   [NoRequest EXCEPT !.op = "answer", !.peer = "127.0.0.1", !.idx = <<1, 0>>]}
  \cup {[NoRequest EXCEPT !.op = "answer", !.peer = "127.0.0.1", !.value = v, !.rating = g] :
          v \in ValueInputs, g \in {"none", "positive"}}
  \cup {[NoRequest EXCEPT !.op = "admin", !.peer = "127.0.0.1", !.setstate = c] :
          c \in {None, 0, 1}}
  \cup {[NoRequest EXCEPT !.op = "admin", !.peer = "127.0.0.1", !.player = U8Max]}

DataVars == <<status, ip_cache, players, active_player, answers,
              answersPoisoned, playersPoisoned>>
HistoryVars == <<overflowChecks, templates, registered, overridden>>

\* The lock, and the mode, the task's next step acquires.
Needs(t) ==
  CASE tasks[t].pc \in {"r_status", "m_status"} -> <<"status", "read">>
    [] tasks[t].pc = "m_state" -> <<"status", "write">>
    [] tasks[t].pc \in {"r_push", "a_players"} -> <<"players", "write">>
    [] tasks[t].pc = "m_players" -> <<"players", "read">>
    [] tasks[t].pc = "a_active" -> <<"active_player", "read">>
    [] tasks[t].pc = "m_player" -> <<"active_player", "write">>
    [] tasks[t].pc = "a_lock" -> <<"answers", "write">>
    [] tasks[t].pc = "m_answers" -> <<"answers", "read">>
    [] OTHER -> <<"none", "none">>

\* A read() that does not wait for the writer.
CanRead_Unguarded(lk) == TRUE

\* RwLock::read returns when no writer holds the lock.
CanRead(lk) == locks[lk].w = NoTask

\* RwLock::write returns when nobody holds the lock.
CanWrite(lk) == locks[lk].w = NoTask /\ locks[lk].r = {}

\* The lock the task's next step acquires is granted.
Granted(t) ==
  CASE Needs(t)[2] = "read" -> CanRead(Needs(t)[1])
    [] Needs(t)[2] = "write" -> CanWrite(Needs(t)[1])
    [] OTHER -> TRUE

ReadLocked(lks, lk, t) == [lks EXCEPT ![lk].r = @ \cup {t}]
WriteLocked(lks, lk, t) == [lks EXCEPT ![lk].w = t]

\* A drop that leaves the write guards in place.
Unlocked_ReadOnly(lks, t, names) ==
  [lk \in LockNames |->
     IF lk \in names THEN [w |-> lks[lk].w, r |-> lks[lk].r \ {t}] ELSE lks[lk]]

\* The task's guards on the named locks are dropped.
Unlocked(lks, t, names) ==
  [lk \in LockNames |->
     IF lk \in names
       THEN [w |-> IF lks[lk].w = t THEN NoTask ELSE lks[lk].w, r |-> lks[lk].r \ {t}]
       ELSE lks[lk]]

\* The task's pc moves on.
Goto(t, pc) == tasks' = [tasks EXCEPT ![t].pc = pc]

\* The handler returns or unwinds: every guard it holds is dropped.
Finish(t) ==
  /\ tasks' = [tasks EXCEPT ![t] = Idle]
  /\ locks' = Unlocked(locks, t, LockNames)

\* Handlers of the kind in flight.
InFlight(op) == Cardinality({t \in Tasks : tasks[t].rq.op = op})
GradesInFlight ==
  Cardinality({t \in Tasks : tasks[t].rq.op = "answer" /\ tasks[t].rq.rating # "none"})

\* The first step of a request's handler after the checks of its caller's
\* address, which these requests pass.
Entry(r) ==
  CASE r.op = "register" -> "r_status"
    [] r.op = "buzz" -> "b_get"
    [] r.op = "answer" -> "a_lock"
    [] r.op = "admin" /\ r.player # None -> "m_player"
    [] r.op = "admin" /\ r.player = None /\ r.setstate # None -> "m_state"
    [] OTHER -> "m_answers"

\* A request arrives and the first free worker starts its handler.
start(t, r) ==
  /\ tasks[t].pc = "idle"
  /\ \A u \in Tasks : u < t => tasks[u].pc # "idle"
  /\ started < MaxRequests
  /\ r.op = "register" => Len(players) + InFlight("register") < MaxPlayers
  /\ (r.op = "answer" /\ r.rating # "none") =>
       TriesTotal(answers) + GradesInFlight < MaxGrades
  /\ tasks' = [tasks EXCEPT ![t] = [Idle EXCEPT !.pc = Entry(r), !.rq = r]]
  /\ started' = started + 1
  /\ UNCHANGED <<DataVars, HistoryVars, locks>>

\* register, lines 220-232: the status guard is a temporary of the match.
r_status(t) ==
  /\ tasks[t].pc = "r_status"
  /\ Granted(t)
  /\ IF status = "Registration" /\ IS_VALID_NAME(tasks[t].rq.name)
       THEN Goto(t, "r_insert") /\ UNCHANGED locks
       ELSE Finish(t)
  /\ UNCHANGED <<DataVars, HistoryVars, started>>

\* register, line 233: ip_cache.insert(..).await
r_insert(t) ==
  /\ tasks[t].pc = "r_insert"
  /\ ip_cache' = CacheInsert(ip_cache, tasks[t].rq.peer, tasks[t].rq.name)
  /\ Goto(t, "r_push")
  /\ UNCHANGED <<status, players, active_player, answers, answersPoisoned,
                 playersPoisoned, HistoryVars, locks, started>>

\* register, lines 234-241: players.write().unwrap(), push, return.
r_push(t) ==
  /\ tasks[t].pc = "r_push"
  /\ Granted(t)
  /\ players' = IF playersPoisoned THEN players
                ELSE PlayersPush(players, tasks[t].rq.name)
  /\ Finish(t)
  /\ UNCHANGED <<status, ip_cache, active_player, answers, answersPoisoned,
                 playersPoisoned, HistoryVars, started>>

\* buzz, lines 250-255: ip_cache.get(..).await, then the response.
b_get(t) ==
  /\ tasks[t].pc = "b_get"
  /\ Finish(t)
  /\ UNCHANGED <<DataVars, HistoryVars, started>>

\* The connection is dropped while the handler waits at its await: the
\* handler's future is dropped, with the cache operation done or not.
abandon(t) ==
  /\ tasks[t].pc \in {"r_insert", "b_get"}
  /\ \E done \in BOOLEAN :
       ip_cache' = IF done /\ tasks[t].pc = "r_insert"
                     THEN CacheInsert(ip_cache, tasks[t].rq.peer, tasks[t].rq.name)
                     ELSE ip_cache
  /\ Finish(t)
  /\ UNCHANGED <<status, players, active_player, answers, answersPoisoned,
                 playersPoisoned, HistoryVars, started>>

\* get_answer, lines 274-276: answers.write().unwrap(), then the index.
a_lock(t) ==
  LET rq == tasks[t].rq IN
  /\ tasks[t].pc = "a_lock"
  /\ Granted(t)
  /\ IF answersPoisoned THEN Finish(t) /\ UNCHANGED answersPoisoned
     ELSE IF ~ValidIndex(answers, rq.idx[1], rq.idx[2])
       THEN Finish(t) /\ answersPoisoned' = TRUE
     ELSE /\ locks' = WriteLocked(locks, "answers", t)
          /\ Goto(t, IF rq.rating # "none" THEN "a_active" ELSE "a_value")
          /\ UNCHANGED answersPoisoned
  /\ UNCHANGED <<status, ip_cache, players, active_player, answers,
                 playersPoisoned, HistoryVars, started>>

\* get_answer, line 294: active_player.read().unwrap()
a_active(t) ==
  /\ tasks[t].pc = "a_active"
  /\ Granted(t)
  /\ locks' = ReadLocked(locks, "active_player", t)
  /\ Goto(t, "a_players")
  /\ UNCHANGED <<DataVars, HistoryVars, started>>

\* get_answer, line 295: players.write().unwrap(); a panic here unwinds
\* through the answers write guard.
a_players(t) ==
  /\ tasks[t].pc = "a_players"
  /\ Granted(t)
  /\ IF playersPoisoned
       THEN Finish(t) /\ answersPoisoned' = TRUE
       ELSE /\ locks' = WriteLocked(locks, "players", t)
            /\ Goto(t, "a_score")
            /\ UNCHANGED answersPoisoned
  /\ UNCHANGED <<status, ip_cache, players, active_player, answers,
                 playersPoisoned, HistoryVars, started>>

\* get_answer, lines 296-309: the player's name and the score.
a_score(t) ==
  LET rq == tasks[t].rq
      id == active_player
      v == AnswerAt(answers, rq.idx[1], rq.idx[2]).points
      panics ==
        IF id >= Len(players) THEN id + 1 > U8Max /\ overflowChecks
        ELSE RatingOverflows(players[id + 1].points, rq.rating, v) /\ overflowChecks
  IN
  /\ tasks[t].pc = "a_score"
  /\ IF panics
       THEN /\ Finish(t)
            /\ answersPoisoned' = TRUE /\ playersPoisoned' = TRUE
            /\ UNCHANGED players
     ELSE IF id >= Len(players)
       THEN /\ tasks' = [tasks EXCEPT ![t].pc = "a_push",
                                      ![t].player_name = UnknownName(id)]
            /\ UNCHANGED <<players, answersPoisoned, playersPoisoned, locks>>
     ELSE /\ players' = [players EXCEPT ![id + 1].points = RatedPoints(@, rq.rating, v)]
          /\ tasks' = [tasks EXCEPT ![t].pc = "a_push",
                                    ![t].player_name = players[id + 1].name]
          /\ UNCHANGED <<answersPoisoned, playersPoisoned, locks>>
  /\ UNCHANGED <<status, ip_cache, active_player, answers, HistoryVars, started>>

\* get_answer, lines 311-323: the try is pushed; the players and
\* active_player guards end with the if-let block.
a_push(t) ==
  LET rq == tasks[t].rq
      v == AnswerAt(answers, rq.idx[1], rq.idx[2]).points
  IN
  /\ tasks[t].pc = "a_push"
  /\ answers' = PushTry(answers, rq.idx[1], rq.idx[2],
                        [player |-> tasks[t].player_name,
                         try_result |-> AnswerResultOf(rq.rating, v)])
  /\ locks' = Unlocked(locks, t, {"players", "active_player"})
  /\ Goto(t, "a_value")
  /\ UNCHANGED <<status, ip_cache, players, active_player, answersPoisoned,
                 playersPoisoned, HistoryVars, started>>

\* get_answer, lines 324-328: the override, then the response.
a_value(t) ==
  LET rq == tasks[t].rq IN
  /\ tasks[t].pc = "a_value"
  /\ answers' = ApplyValue(answers, rq.idx[1], rq.idx[2], rq.value)
  /\ Finish(t)
  /\ UNCHANGED <<status, ip_cache, players, active_player, answersPoisoned,
                 playersPoisoned, HistoryVars, started>>

\* admin, lines 340-343: the guard lives for the block.
m_player(t) ==
  /\ tasks[t].pc = "m_player"
  /\ Granted(t)
  /\ active_player' = tasks[t].rq.player
  /\ Goto(t, IF tasks[t].rq.setstate # None THEN "m_state" ELSE "m_answers")
  /\ UNCHANGED <<status, ip_cache, players, answers, answersPoisoned,
                 playersPoisoned, HistoryVars, locks, started>>

\* admin, lines 344-350
m_state(t) ==
  /\ tasks[t].pc = "m_state"
  /\ Granted(t)
  /\ status' = StatusOfCode(tasks[t].rq.setstate)
  /\ Goto(t, "m_answers")
  /\ UNCHANGED <<ip_cache, players, active_player, answers, answersPoisoned,
                 playersPoisoned, HistoryVars, locks, started>>

\* admin, lines 357-388: answers.read().unwrap(), the tries go on the page.
m_answers(t) ==
  /\ tasks[t].pc = "m_answers"
  /\ Granted(t)
  /\ IF answersPoisoned THEN Finish(t)
     ELSE /\ locks' = ReadLocked(locks, "answers", t)
          /\ tasks' = [tasks EXCEPT ![t].pc = "m_players",
                                    ![t].page.tries = AllTries(answers)]
  /\ UNCHANGED <<DataVars, HistoryVars, started>>

\* admin, lines 389-394: players.read().unwrap(), the scores go on the page.
m_players(t) ==
  /\ tasks[t].pc = "m_players"
  /\ Granted(t)
  /\ IF playersPoisoned THEN Finish(t)
     ELSE /\ locks' = ReadLocked(locks, "players", t)
          /\ tasks' = [tasks EXCEPT ![t].pc = "m_status",
                                    ![t].page.players = players]
  /\ UNCHANGED <<DataVars, HistoryVars, started>>

\* admin, lines 395-401: the status code, then the response.
m_status(t) ==
  /\ tasks[t].pc = "m_status"
  /\ Granted(t)
  /\ Finish(t)
  /\ UNCHANGED <<DataVars, HistoryVars, started>>

\* The next step of the handler that task t runs.
Step(t) ==
  \/ r_status(t) \/ r_insert(t) \/ r_push(t)
  \/ b_get(t)
  \/ a_lock(t) \/ a_active(t) \/ a_players(t) \/ a_score(t) \/ a_push(t) \/ a_value(t)
  \/ m_player(t) \/ m_state(t) \/ m_answers(t) \/ m_players(t) \/ m_status(t)

\* The server handles requests drawn from the given set.
Serve(requests) ==
  \E t \in Tasks :
    \/ \E r \in requests : start(t, r)
    \/ Step(t)
    \/ abandon(t)

NextConc == Serve(ConcRequests)

\* The server starts in a working directory that holds the page templates.
InitConc == Init /\ templates

SpecConc == InitConc /\ [][NextConc]_vars

\* One request for each handler and each lock it can take: a register, a
\* buzz, a grade, an admin page, and an admin request that moves the active
\* pointer and the status.
FairRequests ==
  {[NoRequest EXCEPT !.op = "register", !.peer = "10.0.0.7", !.name = <<"a">>],
   [NoRequest EXCEPT !.op = "buzz", !.peer = "10.0.0.7"],
   [NoRequest EXCEPT !.op = "answer", !.peer = "127.0.0.1", !.rating = "positive"],
   [NoRequest EXCEPT !.op = "admin", !.peer = "127.0.0.1"],
   [NoRequest EXCEPT !.op = "admin", !.peer = "127.0.0.1", !.setstate = 1,
                     !.player = U8Max]}

NextFair == Serve(FairRequests)

\* Each worker thread is scheduled again and again.
FairSpec == InitConc /\ [][NextFair]_vars /\ \A t \in Tasks : WF_vars(Step(t))

\* =================================================================
\* Properties
\* =================================================================
Loopback == "127.0.0.1"
Contestants == ContestantInputs \ {NoPeer}
StatusCodes == SetstateInputs \ {None}

\* The session stores other than Status.
NotStatus == <<ip_cache, players, active_player, answers, answersPoisoned, playersPoisoned>>

\* The tries recorded on the answer at (c, a), oldest first.
TriesAt(ans, c, a) == AnswerAt(ans, c, a).tries.v

\* /answer requests of the admin that reach the board: loopback caller, page template readable.
AdminAnswerRequests == {r \in AnswerRequests : r.peer = Loopback /\ templates}

\* Those that rate an answer of the board.
GradeRequests ==
  {r \in AdminAnswerRequests :
     r.rating # "none" /\ ValidIndex(Catalog, r.idx[1], r.idx[2])}

\* The change of score a rating of v points stands for.
Delta(rating, v) ==
  CASE rating = "positive" -> v
    [] rating = "negative" -> 0 - v
    [] OTHER -> 0

\* C1: a register with an allowed name and a known address succeeds (redirect,
\* a player of score 0 appended, the address mapped to the name) if and only
\* if Status = Registration; a register answered GameNotJoinable or
\* InvalidName leaves the registry and the cache as they were.
C1_RegisterIffRegistration ==
  [][\A peer \in Contestants, name \in NameInputs :
       register(peer, name) =>
         /\ IS_VALID_NAME(name) =>
              ((status = "Registration") <=>
                 /\ RegisterOutcome(peer, name).resp = "Redirect"
                 /\ players' = Append(players, [name |-> name, points |-> 0])
                 /\ peer \in DOMAIN ip_cache'
                 /\ ip_cache'[peer] = name)
         /\ RegisterOutcome(peer, name).resp \in {"GameNotJoinable", "InvalidName"} =>
              (players' = players /\ ip_cache' = ip_cache)]_vars

\* C2: an /answer request of the admin whose category or answer index is
\* outside the board ends with IndexOutOfRange, without a fault (no lock is
\* poisoned), and leaves board, registry, active pointer and status unchanged.
C2_IndexOutOfRangeIsAnError ==
  [][\A r \in AdminAnswerRequests :
       (/\ ~ValidIndex(answers, r.idx[1], r.idx[2])
        /\ get_answer(r.peer, r.idx[1], r.idx[2], r.value, r.rating)) =>
         /\ AnswerOutcome(r.peer, r.idx[1], r.idx[2], r.value, r.rating).resp
              = "IndexOutOfRange"
         /\ answersPoisoned' = answersPoisoned
         /\ playersPoisoned' = playersPoisoned
         /\ UNCHANGED <<answers, players, active_player, status>>]_vars

\* C3: a grade request on valid indices with the active index inside the
\* registry changes the active player's score by exactly +v (positive),
\* -v (negative) or 0 (neutral), v the answer's stored points, and no other
\* player's score.
C3_GradeAppliesExactDelta ==
  \A r \in GradeRequests :
    active_player < Len(players) =>
      LET out == AnswerOutcome(r.peer, r.idx[1], r.idx[2], r.value, r.rating)
          v == AnswerAt(answers, r.idx[1], r.idx[2]).points
      IN /\ Len(out.players) = Len(players)
         /\ out.players[active_player + 1].points
              = players[active_player + 1].points + Delta(r.rating, v)
         /\ \A i \in 1..Len(players) :
              i # active_player + 1 => out.players[i] = players[i]

\* C4: a grade request while the active index (0..255) is at or beyond the
\* registry length changes no player and appends exactly one try whose
\* player is "UNKNOWN No." followed by index + 1.
C4_UnknownPlayerPlaceholder ==
  [][\A r \in GradeRequests :
       (/\ active_player >= Len(players)
        /\ get_answer(r.peer, r.idx[1], r.idx[2], r.value, r.rating)) =>
         LET old == TriesAt(answers, r.idx[1], r.idx[2])
             new == TriesAt(answers', r.idx[1], r.idx[2])
         IN /\ players' = players
            /\ Len(new) = Len(old) + 1
            /\ SubSeq(new, 1, Len(old)) = old
            /\ new[Len(new)].player = UnknownPrefix \o to_string(active_player + 1)]_vars

\* C5: every grade request on an answer adds exactly one try at the end of
\* that answer's tries and applies its score delta, however many came
\* before; no request changes or removes a try already recorded.
C5_EveryGradeAppends ==
  /\ \A r \in GradeRequests :
       LET out == AnswerOutcome(r.peer, r.idx[1], r.idx[2], r.value, r.rating)
           old == TriesAt(answers, r.idx[1], r.idx[2])
           new == TriesAt(out.answers, r.idx[1], r.idx[2])
           v == AnswerAt(answers, r.idx[1], r.idx[2]).points
       IN /\ Len(new) = Len(old) + 1
          /\ SubSeq(new, 1, Len(old)) = old
          /\ active_player < Len(players) =>
               out.players[active_player + 1].points
                 = players[active_player + 1].points + Delta(r.rating, v)
  /\ \A r \in AnswerRequests, idx \in Cells :
       LET out == AnswerOutcome(r.peer, r.idx[1], r.idx[2], r.value, r.rating)
           old == TriesAt(answers, idx[1], idx[2])
           new == TriesAt(out.answers, idx[1], idx[2])
       IN Len(new) >= Len(old) /\ SubSeq(new, 1, Len(old)) = old
  /\ \A r \in AdminRequests :
       AdminOutcome(r.peer, r.setstate, r.reset, r.player).answers = answers

\* C6: once an override has stored newPoints on an answer, a positive grade
\* of that answer with the active index inside the registry raises that
\* player's score by newPoints and records positive(newPoints).
C6_GradeUsesOverride ==
  \A idx \in Cells :
    (templates /\ overridden[idx] # None /\ active_player < Len(players)) =>
      LET out == AnswerOutcome(Loopback, idx[1], idx[2], None, "positive")
          new == TriesAt(out.answers, idx[1], idx[2])
      IN /\ out.players[active_player + 1].points
              = players[active_player + 1].points + overridden[idx]
         /\ Len(new) = Len(TriesAt(answers, idx[1], idx[2])) + 1
         /\ new[Len(new)] =
              [player |-> players[active_player + 1].name,
               try_result |-> [kind |-> "positive", points |-> overridden[idx]]]

\* C7: in every reachable state, resetGame() (an /admin request of the admin
\* with reset=true) leaves an empty registry, an empty cache, no tries, the
\* original catalog points and Status = Registration.
C7_ResetRestoresStart ==
  LET out == AdminOutcome(Loopback, None, "true", None) IN
    /\ out.players = <<>>
    /\ out.ip_cache = EmptyCache
    /\ \A idx \in Cells :
         /\ TriesAt(out.answers, idx[1], idx[2]) = <<>>
         /\ AnswerAt(out.answers, idx[1], idx[2]).points
              = AnswerAt(Catalog, idx[1], idx[2]).points
    /\ out.status = "Registration"

\* C8: a buzz from an address that never completed a register is answered
\* NotRegistered, in either Status; no buzz changes any store.
C8_BuzzNotRegistered ==
  /\ \A peer \in Contestants :
       peer \notin registered => BuzzOutcome(peer).resp = "NotRegistered"
  /\ \A peer \in ContestantInputs :
       LET out == BuzzOutcome(peer) IN
         /\ out.players = players /\ out.answers = answers
         /\ out.active_player = active_player /\ out.status = status
         /\ out.ip_cache = ip_cache

\* The step is a register(peer, name) that returned its redirect.
RegisteredStep(peer, name) ==
  /\ RegisterOutcome(peer, name).resp = "Redirect"
  /\ register(peer, name)

\* C9: the Player Registry is append-only and not deduplicated by address:
\* no step removes, renames or reorders a registry entry; every successful
\* register adds exactly one entry (the name, score 0) after the existing
\* ones and leaves the Identity Cache with one entry for the address, mapped
\* to the name just registered, whatever it mapped to before.
C9_RegistryAppendOnly ==
  [][/\ Len(players') >= Len(players)
     /\ \A i \in 1..Len(players) : players'[i].name = players[i].name
     /\ \A peer \in Contestants, name \in NameInputs :
          (vars' # vars /\ RegisteredStep(peer, name)) =>
            /\ Len(players') = Len(players) + 1
            /\ SubSeq(players', 1, Len(players)) = players
            /\ players'[Len(players')] = [name |-> name, points |-> 0]
            /\ DOMAIN ip_cache' = (DOMAIN ip_cache) \cup {peer}
            /\ ip_cache'[peer] = name
            /\ \A k \in (DOMAIN ip_cache) \ {peer} : ip_cache'[k] = ip_cache[k]]_vars

\* Two registers from one address under different names: two registry
\* entries, one cache entry, mapped to the later name.
C9_Witness ==
  /\ Len(players) = 2
  /\ players[1].name # players[2].name
  /\ DOMAIN ip_cache = {"10.0.0.7"}
  /\ ip_cache["10.0.0.7"] = players[2].name

\* The step is setStatus(code): an /admin request of the admin carrying only setstate.
SetStatusStep(code) == admin(Loopback, code, "none", None)

\* C10: Status starts as Registration; setStatus(code) sets Status to
\* Registration for code 0 and to BuzzerActive for every other code, changes
\* nothing but Status, and setStatus(code) applied again to the state it
\* produced gives that same state.
C10_SetStatus ==
  /\ status = "Registration"
  /\ [][\A code \in StatusCodes :
          (vars' # vars /\ SetStatusStep(code)) =>
            /\ status' = (IF code = 0 THEN "Registration" ELSE "BuzzerActive")
            /\ NotStatus' = NotStatus
            /\ LET again == AdminOutcome(Loopback, code, "none", None)' IN
                 /\ again.status = status'
                 /\ again.ip_cache = ip_cache'
                 /\ again.players = players'
                 /\ again.active_player = active_player'
                 /\ again.answers = answers']_vars

\* setStatus has moved a session with a registered player to BuzzerActive.
C10_Witness == status = "BuzzerActive" /\ players # <<>>

\* A caller with an address that is not the loopback address.
Remote == "10.0.0.7"

\* C11: every /answer and /admin request from an address that is not
\* loopback is answered Unauthorized and leaves status, active pointer,
\* board, registry (and cache) as they were, whatever parameters it carries.
C11_RemoteIsUnauthorized ==
  /\ \A r \in AnswerRequests :
       r.peer = Remote =>
         AnswerOutcome(r.peer, r.idx[1], r.idx[2], r.value, r.rating)
           = Same("Unauthorized")
  /\ \A r \in AdminRequests :
       r.peer = Remote =>
         AdminOutcome(r.peer, r.setstate, r.reset, r.player) = Same("Unauthorized")

\* A session with a player in which the admin's own setStatus, selectPlayer
\* and grade-with-override requests would each change a store, and the same
\* requests from the remote caller are refused.
C11_Witness ==
  /\ players # <<>>
  /\ AdminOutcome(Loopback, 1, "true", U8Max).status # status
  /\ AdminOutcome(Loopback, 1, "true", U8Max).active_player # active_player
  /\ AdminOutcome(Remote, 1, "true", U8Max).resp = "Unauthorized"
  /\ AnswerOutcome(Loopback, 0, 0, 300, "positive").resp = "Ok"
  /\ AnswerOutcome(Loopback, 0, 0, 300, "positive").players # players
  /\ AnswerOutcome(Remote, 0, 0, 300, "positive").resp = "Unauthorized"

\* C12: an /answer request of the admin on valid indices with no rating and
\* no new value leaves the board (points and tries), the registry, the
\* active pointer, the status and the identity cache as they were.
C12_RevealHasNoSideEffect ==
  \A idx \in IndexInputs :
    ValidIndex(answers, idx[1], idx[2]) =>
      LET out == AnswerOutcome(Loopback, idx[1], idx[2], None, "none") IN
        out = Same(out.resp)

\* A reveal that answers Ok on an answer with an overridden value and a
\* recorded try.
C12_Witness ==
  /\ AnswerOutcome(Loopback, 0, 0, None, "none").resp = "Ok"
  /\ AnswerAt(answers, 0, 0).points = 300
  /\ TriesAt(answers, 0, 0) # <<>>

\* The admin page is rendered: loopback caller, template readable, no lock poisoned.
AdminPageShown == AdminOutcome(Loopback, None, "none", None).resp = "Ok"

\* C13: the STATE code on the admin page is the code of the current Status
\* under setStatus's mapping (0 Registration, non-zero BuzzerActive), so that
\* setStatus(shown code) leaves Status as it is.
C13_ShownCodeIsStatusCode ==
  AdminPageShown =>
    LET shown == StateCode(AdminOutcome(Loopback, None, "none", None).status) IN
      /\ StatusOfCode(shown) = status
      /\ AdminOutcome(Loopback, shown, "none", None).status = status

\* C17: no request that ends in an error disables the session: in every
\* reachable state (so after any such request) a well-formed register, buzz,
\* reveal, grade and admin request completes with its normal result.
C17_ErrorsDoNotDisable ==
  templates =>
    /\ \A peer \in Contestants, name \in NameInputs :
         (status = "Registration" /\ IS_VALID_NAME(name)) =>
           RegisterOutcome(peer, name).resp = "Redirect"
    /\ \A peer \in DOMAIN ip_cache : BuzzOutcome(peer).resp = "Redirect"
    /\ \A idx \in Cells :
         AnswerOutcome(Loopback, idx[1], idx[2], None, "none").resp = "Ok"
    /\ \A r \in GradeRequests :
         active_player + 1 <= U8Max =>
           AnswerOutcome(r.peer, r.idx[1], r.idx[2], r.value, r.rating).resp = "Ok"
    /\ \A r \in AdminRequests :
         r.peer = Loopback =>
           AdminOutcome(r.peer, r.setstate, r.reset, r.player).resp = "Ok"

\* C18: an /answer request of the admin carrying a rating and a new value
\* grades with the points stored before the request (score delta and
\* recorded try) and leaves the answer's points equal to the new value.
C18_GradeThenOverride ==
  \A r \in GradeRequests :
    r.value # None =>
      LET out == AnswerOutcome(r.peer, r.idx[1], r.idx[2], r.value, r.rating)
          old == TriesAt(answers, r.idx[1], r.idx[2])
          new == TriesAt(out.answers, r.idx[1], r.idx[2])
          v == AnswerAt(answers, r.idx[1], r.idx[2]).points
      IN /\ AnswerAt(out.answers, r.idx[1], r.idx[2]).points = r.value
         /\ Len(new) = Len(old) + 1
         /\ new[Len(new)].try_result = AnswerResultOf(r.rating, v)
         /\ active_player < Len(players) =>
              out.players[active_player + 1].points
                = players[active_player + 1].points + Delta(r.rating, v)

\* Sum of the scores of the registry entries named n.
ScoreOf(list, n) ==
  SumSeq([i \in 1..Len(list) |-> IF list[i].name = n THEN list[i].points ELSE 0])

\* Signed sum of the tries recorded under the name n.
AttemptSum(tries, n) ==
  SumSeq([i \in 1..Len(tries) |->
            IF tries[i].player = n
              THEN Delta(tries[i].try_result.kind, tries[i].try_result.points)
              ELSE 0])

IsPlaceholder(name) ==
  /\ Len(name) > Len(UnknownPrefix)
  /\ SubSeq(name, 1, Len(UnknownPrefix)) = UnknownPrefix

C14_NoAppendWhileBuzzerActive ==
  [][Len(players') > Len(players) =>
       (status = "Registration" /\ status' = "Registration")]_vars

\* The scores and the tries agree: the registry names' scores are the signed
\* sums of their tries, and every other try is under a placeholder.
Conserved(list, tries) ==
  LET names == {list[i].name : i \in 1..Len(list)} IN
    /\ \A n \in names : ScoreOf(list, n) = AttemptSum(tries, n)
    /\ \A i \in 1..Len(tries) :
         tries[i].player \in names \/ IsPlaceholder(tries[i].player)

\* C15: grade is atomic for every other handler: the scores and the tries
\* an admin page shows agree (no score change without its try, no try
\* without its score change), and outside the step between a grade's score
\* write and its push the stored scores and tries agree, each try carrying
\* the points its grade applied.
C15_GradeIsAtomic ==
  /\ \A t \in Tasks :
       tasks[t].pc = "m_status" => Conserved(tasks[t].page.players, tasks[t].page.tries)
  /\ (\A t \in Tasks : tasks[t].pc # "a_push") => Conserved(players, AllTries(answers))

\* An admin page that is about to be sent shows a player's score of a grade
\* together with the try of that grade.
C15_Witness ==
  \E t \in Tasks :
    /\ tasks[t].pc = "m_status"
    /\ tasks[t].page.tries # <<>>
    /\ \E i \in 1..Len(tasks[t].page.players) : tasks[t].page.players[i].points # 0

\* Some handler in flight can take its next step.
NoDeadlock ==
  (\E t \in Tasks : tasks[t].pc # "idle") =>
    (\E t \in Tasks : tasks[t].pc # "idle" /\ Granted(t))

\* C16: over the four locks no set of handlers in flight is deadlocked, and
\* with every worker scheduled fairly each started handler returns.
C16_NoHandlerBlocksForever ==
  /\ []NoDeadlock
  /\ \A t \in Tasks : (tasks[t].pc # "idle") ~> (tasks[t].pc = "idle")

\* A handler waits for a lock that another handler holds.
C16_Witness ==
  \E t \in Tasks, u \in Tasks :
    /\ t # u
    /\ tasks[t].pc # "idle" /\ ~Granted(t)
    /\ locks[Needs(t)[1]].w = u \/ u \in locks[Needs(t)[1]].r

\* C19: in every state of the interleaved server, with a register in flight
\* or abandoned, every name the cache maps an address to is the name of a
\* player of the registry.
C19_CacheNamesRegistered ==
  \A ip \in DOMAIN ip_cache :
    \E i \in 1..Len(players) : players[i].name = ip_cache[ip]
====
